---- MODULE Spec2Model ----
(***************************************************************************)
(* A model of talonfmt's tree-to-document translator (TalonFormatter in    *)
(* src/talonfmt/formatter.py).                                             *)
(*                                                                         *)
(* An AST node is a record [type, text, children, fields]: `children` are  *)
(* the node's non-field children in document order (tree_sitter_talon      *)
(* keeps the comments there), `fields` its named fields in the order the   *)
(* formatter reads them.  `text` is a number: the display width of a leaf, *)
(* and the identity (source position) of a Comment, Docstring or Error.    *)
(*                                                                         *)
(* Every formatter function that can touch TalonFormatter._comment_buffer  *)
(* takes the buffer and returns a result [err, at, buf, out]: the exception*)
(* raised ("none" when it returns), the text of the node a ParseError      *)
(* carries, the buffer afterwards and the value returned or yielded.  A    *)
(* function that raises returns nothing; a generator that raises has in    *)
(* out the lines it yielded before.                                        *)
(***************************************************************************)
EXTENDS Integers, Sequences, FiniteSets, TLC

VARIABLES
    self,                  \* the TalonFormatter's dataclass fields
    _comment_buffer,       \* TalonFormatter._comment_buffer
    call,                  \* SpecFmt: the call last made on a fresh formatter
    ret,                   \* SpecFmt: what that call returned or raised
    children,              \* Spec: the children of the TalonSourceFile read so far
    in_header,             \* Spec: local of format_block(TalonSourceFile)
    comment_buffer,        \* Spec: local of format_block(TalonSourceFile)
    short_command_buffer,  \* Spec: local of format_block(TalonSourceFile)
    out,                   \* Spec: the Docs yielded so far
    pc,                    \* Spec: "loop", "done" or the exception raised
    raised,                \* Spec: the text of the node a ParseError carries
    threads,               \* SpecConc: each thread's format call, its locals
    buffers                \* SpecConc: _comment_buffer of each TalonFormatter

fmtVars == <<call, ret>>
srcVars == <<children, in_header, comment_buffer, short_command_buffer, out,
             pc, raised>>
concVars == <<threads, buffers>>

-----------------------------------------------------------------------------
(* Bounds of the model *)

MaxKids == 2          \* longest generated children list of an expression node
MaxMatches == 2       \* longest generated children list of a match combinator
MaxChildren == 3      \* longest TalonSourceFile children list

-----------------------------------------------------------------------------
(* The AST *)

Node(type, text, kids, fields) ==
    [type |-> type, text |-> text, children |-> kids, fields |-> fields]

Leaf(type, text) == Node(type, text, <<>>, <<>>)
Comment(pos) == Leaf("Comment", pos)
Error(pos) == Leaf("Error", pos)

\* leaves rendered as their text (formatter.py 439-450, 477-483, 493-495, 505-511, 568-570)
TextKinds == {"Identifier", "Operator", "Float", "Integer", "ImplicitString",
              "StringContent", "StringEscapeSequence", "Word"}
\* leaves rendered as one fixed character (528-530, 564-566)
AnchorKinds == {"StartAnchor", "EndAnchor"}
\* nodes whose children may only be comments; the content is in the fields
FieldOnlyKinds == {"Action", "KeyAction", "SleepAction", "BinaryOperator",
                   "Variable", "Capture", "List"}
\* nodes with exactly one non-comment child
WrapperKinds == {"ParenthesizedExpression", "Number", "Interpolation", "Optional",
                 "ParenthesizedRule", "Repeat", "Repeat1"}
\* nodes whose children are a list
ListKinds == {"ArgumentList", "Choice", "Rule", "Seq", "String", "RegexEscapeSequence"}
\* nodes format() hands to format_block (130-143)
BlockLevelKinds == {"SourceFile", "Context", "IncludeTag", "Settings", "Command",
                    "Block", "Assignment", "Expression"}
MatchKinds == {"And", "Not", "Match", "Or"}

IsComment(node) == node.type = "Comment"

\* isinstance(child, node_type), node_type one of Node, TalonComment, TalonBlock
IsInstance(node, node_type) == node_type = "Node" \/ node.type = node_type

-----------------------------------------------------------------------------
(* Results *)

Ok(buf, o) == [err |-> "none", at |-> 0, buf |-> buf, out |-> o]
Raise(kind, at, buf) == [err |-> kind, at |-> at, buf |-> buf, out |-> <<>>]

\* LET x == v IN F(x), with v evaluated once, before F
Let(v, F(_)) == CHOOSE y \in {F(x) : x \in {v}} : TRUE

\* r, and F of what r returned unless r raised
Then(r, F(_)) == Let(r, LAMBDA x : IF x.err # "none" THEN x ELSE F(x))

\* an exception leaves a call that collects the lines (list, Line.join): the
\* lines the generator had yielded are dropped
Lost(r) == Let(r, LAMBDA x : IF x.err # "none" THEN Raise(x.err, x.at, x.buf)
                            ELSE x)

\* a generator that has yielded `lines` goes on as r does: r's lines follow,
\* and an exception of r leaves the consumer with the lines yielded so far
After(lines, r) == [r EXCEPT !.out = lines \o @]

-----------------------------------------------------------------------------
(* Docs.  An expression has no layout choice in it, so its Doc is kept as  *)
(* the display width of its text.                                          *)

Txt(w) == [k |-> "text", w |-> w]
W(doc) == IF doc.k = "text" THEN doc.w ELSE 0
Fail == [k |-> "fail"]
Sep == [k |-> "sep"]                                    \* Text("-")
Join(lines) == [k |-> "join", lines |-> lines]          \* Line.join(lines)
Alt(alts) == [k |-> "alt", alts |-> alts]               \* alt(...), a | b
\* left / ":" // right
Plain(left, right) == [k |-> "plain", left |-> left, right |-> right]
\* row(left / ":", right, table_type=..., min_col_widths=...)
Row(left, right, table_type, min_col_widths) ==
    [k |-> "row", left |-> left, right |-> right, table_type |-> table_type,
     min_col_widths |-> min_col_widths]

RECURSIVE SumW(_)
SumW(docs) == IF docs = <<>> THEN 0 ELSE W(Head(docs)) + SumW(Tail(docs))

\* sep.join(docs) for a separator of width s
JoinW(docs, s) == IF docs = <<>> THEN 0 ELSE SumW(docs) + s * (Len(docs) - 1)

-----------------------------------------------------------------------------
(* The formatter's configuration: align_* is a bool or an int.  Python's   *)
(* `x is True` holds of the bool True only; `if x` holds of every value    *)
(* but False and 0.                                                        *)

PyBool(b) == [py |-> "bool", val |-> IF b THEN 1 ELSE 0]
PyInt(n) == [py |-> "int", val |-> n]
IsTrue(x) == x.py = "bool" /\ x.val = 1
Truthy(x) == x.val # 0

-----------------------------------------------------------------------------
(* Comment buffering (formatter.py 586-633) *)

\* tuple(self.store_comments(children, node_type=...)): the comments go to the
\* buffer, the others are yielded if they are of node_type, else TypeError
RECURSIVE store_comments(_, _, _)
store_comments(kids, node_type, buf) ==
    IF kids = <<>> THEN Ok(buf, <<>>)
    ELSE LET child == Head(kids) IN
         IF IsComment(child)
         THEN store_comments(Tail(kids), node_type, Append(buf, child))
         ELSE IF IsInstance(child, node_type)
         THEN LET r == store_comments(Tail(kids), node_type, buf) IN
              IF r.err # "none" THEN r ELSE Ok(r.buf, <<child>> \o r.out)
         ELSE Raise("TypeError", child.text, buf)

\* get_comments without the `finally: self._comment_buffer.clear()`
get_comments_without_clear(buf) == Ok(buf, buf)

\* list(self.get_comments()): the buffer's content, and the buffer cleared
get_comments(buf) == Ok(<<>>, buf)

CommentDoc(node) == [k |-> "comment", text |-> node.text]

\* list(self.get_formatted_comments())
get_formatted_comments(buf) ==
    LET r == get_comments(buf) IN
    Ok(r.buf, [i \in 1..Len(r.out) |-> CommentDoc(r.out[i])])

\* `yield from self.get_formatted_comments()` in a generator that `depth`
\* loops of format_block(TalonBlock) iterate line by line.  The first comment
\* goes up while get_comments is suspended in `yield from
\* self._comment_buffer`; each loop above answers with
\* get_formatted_comments of its own, the outermost one yields the whole
\* buffer and clears it, and every iterator below, this one included, finds
\* the list empty when it resumes and has passed on that one comment.
yield_formatted_comments(buf, depth) ==
    LET c == get_formatted_comments(buf) IN
    IF depth = 0 \/ c.out = <<>> THEN c
    ELSE Ok(c.buf, c.out \o [i \in 1..depth |-> c.out[1]])

\* `yield line` for each of `lines`, nothing stored in between: the loop of
\* format_block(TalonBlock) next above yields the buffered comments before
\* it passes the first line on
yield_lines(lines, buf, depth) ==
    IF depth = 0 THEN Ok(buf, lines)
    ELSE IF lines = <<>> THEN Ok(buf, <<>>)
    ELSE LET c == yield_formatted_comments(buf, depth - 1) IN
         Ok(c.buf, c.out \o lines)

\* yield from self.get_formatted_comments(); yield from lines
yield_comments_then_lines(lines, buf, depth) ==
    LET c == yield_formatted_comments(buf, depth) IN
    After(c.out, yield_lines(lines, c.buf, depth))

assert_only_comments(kids, buf) ==
    Then(store_comments(kids, "Comment", buf), LAMBDA r :
         IF Len(r.out) # 0 THEN Raise("AssertionError", 0, r.buf)
         ELSE Ok(r.buf, <<>>))

get_node_with_type(kids, node_type, buf) ==
    Then(store_comments(kids, node_type, buf), LAMBDA r :
         IF Len(r.out) # 1 THEN Raise("AssertionError", 0, r.buf)
         ELSE Ok(r.buf, r.out[1]))

get_node(kids, buf) == get_node_with_type(kids, "Node", buf)

-----------------------------------------------------------------------------
(* Pure helpers (formatter.py 102-115, 296-322, 378-394) *)

\* is_short_command counting no comments
is_short_command_without_comments(node) ==
    Len(SelectSeq(node.children, LAMBDA n : ~IsComment(n)))
        + Len(SelectSeq(node.fields[2].children, LAMBDA n : ~IsComment(n))) = 1

is_short_command(node) ==
    Len(node.children) + Len(node.fields[2].children) = 1

\* block_with_comments with the comments after the block's children
block_with_comments_appended(comments, block) ==
    Node(block.type, block.text, block.children \o comments, block.fields)

block_with_comments(comments, block) ==
    Node(block.type, block.text, comments \o block.children, block.fields)

format_match_keywords(under_and, under_not) ==
    (IF under_and THEN <<"and", " ">> ELSE <<>>)
        \o (IF under_not THEN <<"not", " ">> ELSE <<>>)

format_match_alternatives(key, pattern) ==
    <<Plain(key, pattern)>>
        \o (IF Truthy(self.align_match_context)
            THEN IF IsTrue(self.align_match_context)
                 THEN <<Row(key, pattern, "match", <<>>)>>
                 ELSE <<Row(key, pattern, "match", <<self.align_match_context.val>>)>>
            ELSE <<>>)

format_short_command(rule, script) ==
    IF Truthy(self.align_short_commands)
    THEN IF IsTrue(self.align_short_commands)
         THEN Row(rule, script, "command", <<>>)
         ELSE Row(rule, script, "command", <<self.align_short_commands.val>>)
    ELSE Plain(rule, script)

-----------------------------------------------------------------------------
(* Widths of the expression Docs (formatter.py 421-570) *)

\* a node of FieldOnlyKinds, from the Docs of its fields
FieldW(type, docs) ==
    CASE type = "Action" -> W(docs[1]) + 2 + W(docs[2])          \* name(args)
      [] type = "KeyAction" -> 3 + 2 + W(docs[1])                \* key(args)
      [] type = "SleepAction" -> 5 + 2 + W(docs[1])              \* sleep(args)
      [] type = "BinaryOperator" -> JoinW(docs, 1)               \* l op r
      [] type = "Variable" -> W(docs[1])
      [] type \in {"Capture", "List"} -> 2 + W(docs[1])          \* <n>, {n}

\* a node of WrapperKinds, from the Doc of its child
WrapW(type, doc) ==
    CASE type \in {"ParenthesizedExpression", "Optional", "ParenthesizedRule"} -> 2 + W(doc)
      [] type \in {"Repeat", "Repeat1"} -> W(doc) + 1
      [] type \in {"Number", "Interpolation"} -> W(doc)

\* a node of ListKinds, from the Docs of its children
ListW(type, docs) ==
    CASE type = "ArgumentList" -> JoinW(docs, 2)                 \* ", "
      [] type = "Choice" -> JoinW(docs, 3)                       \* " | "
      [] type = "Rule" -> SumW(docs)
      [] type = "Seq" -> JoinW(docs, 1)
      [] type \in {"String", "RegexEscapeSequence"} -> 2 + SumW(docs)

-----------------------------------------------------------------------------
(* The translator (formatter.py 124-184, 253-294, 328-570) *)

\* alt1 of a command: cat(rule / ":", nest(indent_size, Line, script, Line))
Expanded(rule, script) ==
    [k |-> "expanded", rule |-> rule, indent |-> self.indent_size, script |-> script]

\* the two layouts of a command, alt1 | alt2
command_alternatives(rule, script, block) ==
    <<Expanded(rule, script),
      IF Len(block.children) = 1 THEN format_short_command(rule, script) ELSE Fail>>

\* And_under_and with `under_and = True` after a comment child too
And_under_and_after_every_child(child, under_and) == TRUE

\* under_and for the children after `child` in TalonAnd's loop
And_under_and(child, under_and) == IF IsComment(child) THEN under_and ELSE TRUE

\* under_not for `child` in TalonNot's loop, from the flag the loop holds
Not_under_not(under_not) == under_not

\* under_not for the children after `child` in TalonNot's loop
Not_next_under_not(child, under_not) == IF IsComment(child) THEN under_not ELSE TRUE

\* The formatter's functions call one another through Python's dispatch on
\* the node's class (singledispatchmethod); dispatch(fn, x, ...) is the call of
\* fn on x, a node or the rest of a children list.  format_block and
\* format_block_match are generators: `depth` is the number of loops of
\* format_block(TalonBlock) that iterate the generator line by line; every
\* other consumer (list, Line.join, list.extend, the caller of the
\* formatter) leaves the buffer alone between two lines.
RECURSIVE dispatch(_, _, _, _, _, _)

format(node, buf) == dispatch("format", node, FALSE, FALSE, buf, 0)
format_children(kids, buf) == dispatch("format_children", kids, FALSE, FALSE, buf, 0)
format_fields(fields, buf) == dispatch("format_fields", fields, FALSE, FALSE, buf, 0)
format_block_within(node, buf, depth) ==
    dispatch("format_block", node, FALSE, FALSE, buf, depth)
format_block(node, buf) == format_block_within(node, buf, 0)
format_block_match_within(match, under_and, under_not, buf, depth) ==
    dispatch("format_block_match", match, under_and, under_not, buf, depth)
format_block_match(match, under_and, under_not, buf) ==
    format_block_match_within(match, under_and, under_not, buf, 0)
format_block_TalonContext(kids, buf, depth) ==
    dispatch("TalonContext", kids, FALSE, FALSE, buf, depth)
format_block_TalonBlock(kids, buf, depth) ==
    dispatch("TalonBlock", kids, FALSE, FALSE, buf, depth)
format_block_match_TalonAnd(kids, under_and, under_not, buf, depth) ==
    dispatch("TalonAnd", kids, under_and, under_not, buf, depth)
format_block_match_TalonNot(kids, under_and, under_not, buf, depth) ==
    dispatch("TalonNot", kids, under_and, under_not, buf, depth)
format_block_match_TalonOr(kids, under_and, under_not, buf, depth) ==
    dispatch("TalonOr", kids, under_and, under_not, buf, depth)
format_block_TalonSourceFile(node, buf, depth) ==
    dispatch("TalonSourceFile", node, FALSE, FALSE, buf, depth)

\* self.format(f1), self.format(f2), ... left to right
format_fields_body(fields, buf) ==
    IF fields = <<>> THEN Ok(buf, <<>>)
    ELSE Then(format(Head(fields), buf), LAMBDA r :
         Then(format_fields(Tail(fields), r.buf), LAMBDA rest :
              Ok(rest.buf, <<r.out>> \o rest.out)))

\* list(self.format_children(children)): store_comments(node_type=Node) is
\* consumed lazily, so comments are stored between the children's format calls
format_children_body(kids, buf) ==
    IF kids = <<>> THEN Ok(buf, <<>>)
    ELSE LET child == Head(kids) IN
         IF IsComment(child) THEN format_children(Tail(kids), Append(buf, child))
         ELSE Then(format(child, buf), LAMBDA r :
              Then(format_children(Tail(kids), r.buf), LAMBDA rest :
                   Ok(rest.buf, <<r.out>> \o rest.out)))

format_body(node, buf) ==
    CASE node.type \in TextKinds -> Ok(buf, Txt(node.text))
      [] node.type \in AnchorKinds -> Ok(buf, Txt(1))
      [] node.type = "Comment" -> Ok(buf, CommentDoc(node))
      [] node.type = "Docstring" -> Ok(buf, [k |-> "docstring", text |-> node.text])
      [] node.type \in FieldOnlyKinds ->
            Then(assert_only_comments(node.children, buf), LAMBDA a :
            Then(format_fields(node.fields, a.buf), LAMBDA f :
                 Ok(f.buf, Txt(FieldW(node.type, f.out)))))
      [] node.type \in WrapperKinds ->
            Then(get_node(node.children, buf), LAMBDA g :
            Then(format(g.out, g.buf), LAMBDA r :
                 Ok(r.buf, Txt(WrapW(node.type, r.out)))))
      [] node.type \in ListKinds ->
            Then(format_children(node.children, buf), LAMBDA r :
                 Ok(r.buf, Txt(ListW(node.type, r.out))))
      [] node.type \in BlockLevelKinds ->
            Then(Lost(format_block(node, buf)), LAMBDA r :
                 Ok(r.buf, Join(r.out)))
      [] node.type = "Error" -> Raise("ParseError", node.text, buf)
      [] OTHER -> Raise("TypeError", node.text, buf)

\* format_block_match(TalonMatch)
format_block_match_TalonMatch(match, under_and, under_not, buf, depth) ==
    Then(assert_only_comments(match.children, buf), LAMBDA a :
    Then(format_fields(match.fields, a.buf), LAMBDA f :
         LET key == [k |-> "key",
                     keywords |-> format_match_keywords(under_and, under_not),
                     w |-> W(f.out[1])]
         IN yield_lines(<<Alt(format_match_alternatives(key, f.out[2]))>>,
                        f.buf, depth)))

\* self.format_block_match(child, under_and, under_not): the loops of TalonAnd,
\* TalonNot and TalonOr pass the flags by position, and the default
\* implementation, which takes them by keyword only, cannot be called so
format_block_match_positional(child, under_and, under_not, buf, depth) ==
    IF child.type \in MatchKinds
    THEN format_block_match_within(child, under_and, under_not, buf, depth)
    ELSE Raise("TypeError", child.text, buf)

TalonAnd_loop(kids, under_and, under_not, buf, depth) ==
    IF kids = <<>> THEN Ok(buf, <<>>)
    ELSE LET child == Head(kids) IN
         Then(IF IsComment(child) THEN format_block_within(child, buf, depth)
              ELSE format_block_match_positional(
                       child, under_and, under_not, buf, depth),
              LAMBDA r : After(r.out,
                               format_block_match_TalonAnd(
                                   Tail(kids), And_under_and(child, under_and),
                                   under_not, r.buf, depth)))

TalonNot_loop(kids, under_and, under_not, buf, depth) ==
    IF kids = <<>> THEN Ok(buf, <<>>)
    ELSE LET child == Head(kids) IN
         Then(IF IsComment(child) THEN format_block_within(child, buf, depth)
              ELSE format_block_match_positional(
                       child, under_and, Not_under_not(under_not), buf, depth),
              LAMBDA r : After(r.out,
                               format_block_match_TalonNot(
                                   Tail(kids), under_and,
                                   Not_next_under_not(child, under_not),
                                   r.buf, depth)))

\* a child of TalonOr that is no comment: its lines are collected, then the
\* buffered comments and the lines are yielded
TalonOr_match(child, under_and, under_not, buf, depth) ==
    Then(Lost(format_block_match_positional(child, under_and, under_not, buf, 0)),
         LAMBDA r : yield_comments_then_lines(r.out, r.buf, depth))

TalonOr_loop(kids, under_and, under_not, buf, depth) ==
    IF kids = <<>> THEN Ok(buf, <<>>)
    ELSE LET child == Head(kids) IN
         Then(IF IsComment(child) THEN format_block_within(child, buf, depth)
              ELSE TalonOr_match(child, under_and, under_not, buf, depth),
              LAMBDA r : After(r.out,
                               format_block_match_TalonOr(
                                   Tail(kids), under_and, under_not, r.buf,
                                   depth)))

format_block_match_body(match, under_and, under_not, buf, depth) ==
    CASE match.type = "And" ->
            format_block_match_TalonAnd(match.children, under_and, under_not,
                                        buf, depth)
      [] match.type = "Not" ->
            format_block_match_TalonNot(match.children, under_and, under_not,
                                        buf, depth)
      [] match.type = "Or" ->
            format_block_match_TalonOr(match.children, under_and, under_not,
                                       buf, depth)
      [] match.type = "Match" ->
            format_block_match_TalonMatch(match, under_and, under_not, buf, depth)
      [] match.type = "Error" -> Raise("ParseError", match.text, buf)
      [] OTHER -> Raise("TypeError", match.text, buf)

\* format_block(TalonContext)
TalonContext_loop(kids, buf, depth) ==
    IF kids = <<>> THEN Ok(buf, <<>>)
    ELSE Then(Lost(format_block(Head(kids), buf)), LAMBDA r :
         Then(yield_comments_then_lines(r.out, r.buf, depth), LAMBDA y :
              After(y.out, format_block_TalonContext(Tail(kids), y.buf, depth))))

\* format_block(TalonIncludeTag), up to the buffered comments being read
IncludeTag_store(node, buf) == assert_only_comments(node.children, buf)

\* format_block(TalonIncludeTag), from get_formatted_comments on
IncludeTag_emit(node, buf, depth) ==
    Let(yield_formatted_comments(buf, depth), LAMBDA c :
        After(c.out,
              Then(format(node.fields[1], c.buf), LAMBDA t :
                   yield_lines(<<[k |-> "tag", tag |-> t.out]>>, t.buf, depth))))

format_block_TalonIncludeTag(node, buf, depth) ==
    Then(IncludeTag_store(node, buf),
         LAMBDA a : IncludeTag_emit(node, a.buf, depth))

\* format_block(TalonSettings), up to the buffered comments being read
Settings_store(node, buf) == get_node_with_type(node.children, "Block", buf)

\* format_block(TalonSettings), from get_comments on
Settings_emit(block, buf, depth) ==
    Let(get_comments(buf), LAMBDA c :
        Then(format(block_with_comments(c.out, block), c.buf), LAMBDA s :
             yield_lines(<<[k |-> "settings", indent |-> self.indent_size,
                            block |-> s.out]>>, s.buf, depth)))

format_block_TalonSettings(node, buf, depth) ==
    Then(Settings_store(node, buf),
         LAMBDA g : Settings_emit(g.out, g.buf, depth))

\* format_block(TalonCommand), up to the buffered comments being read
Command_store(node, buf) == format(node.fields[1], buf)

\* format_block(TalonCommand), from get_formatted_comments on
Command_emit(node, rule, buf, depth) ==
    LET block == block_with_comments(node.children, node.fields[2]) IN
    Let(yield_formatted_comments(buf, depth), LAMBDA c :
        After(c.out,
              Then(format(block, c.buf), LAMBDA s :
                   yield_lines(<<Alt(command_alternatives(rule, s.out, block))>>,
                               s.buf, depth))))

format_block_TalonCommand(node, buf, depth) ==
    Then(Command_store(node, buf),
         LAMBDA r : Command_emit(node, r.out, r.buf, depth))

\* format_block(TalonBlock): the loop iterates format_block(child) line by
\* line and yields the buffered comments above each line it gets, so the
\* child runs under one loop more
TalonBlock_loop(kids, buf, depth) ==
    IF kids = <<>> THEN Ok(buf, <<>>)
    ELSE Then(format_block_within(Head(kids), buf, depth + 1), LAMBDA r :
              After(r.out, format_block_TalonBlock(Tail(kids), r.buf, depth)))

\* format_block(TalonAssignment): left // "=" // right
format_block_TalonAssignment(node, buf, depth) ==
    Then(assert_only_comments(node.children, buf), LAMBDA a :
    Then(format_fields(node.fields, a.buf), LAMBDA f :
         yield_lines(<<Txt(W(f.out[1]) + 3 + W(f.out[2]))>>, f.buf, depth)))

\* format_block(TalonExpression)
format_block_TalonExpression(node, buf, depth) ==
    Then(assert_only_comments(node.children, buf), LAMBDA a :
    Then(format(node.fields[1], a.buf), LAMBDA f :
         yield_lines(<<f.out>>, f.buf, depth)))

-----------------------------------------------------------------------------
(* The source file (formatter.py 190-247).  The generator's locals, the    *)
(* Docs it has yielded and the exception that ended it are a record st;    *)
(* SourceFile_child is one pass of the loop over node.children,            *)
(* SourceFile_end what follows the loop.                                   *)

\* list(create_tables(iter(docs))): doc_printer's table builder, kept as one
\* Doc that holds the list it was given
create_tables(docs) == <<[k |-> "tables", docs |-> docs]>>

\* list(clear_short_command_buffer()) for a buffer holding docs
clear_short_command_buffer(docs) ==
    IF docs # <<>> THEN create_tables(docs) ELSE <<>>

\* `if self.align_short_commands:` in place of `is True`
buffers_short_commands_if_truthy == Truthy(self.align_short_commands)

\* the test that guards the short-command buffer
buffers_short_commands == IsTrue(self.align_short_commands)

\* the state of the generator when it starts
SourceFile_start(buf, depth) ==
    [in_header |-> TRUE, comment_buffer |-> <<>>, short_command_buffer |-> <<>>,
     buf |-> buf, out |-> <<>>, err |-> "none", at |-> 0, depth |-> depth]

\* the generator yields `lines` of its own
SourceFile_yield(st, lines) ==
    LET y == yield_lines(lines, st.buf, st.depth) IN
    [st EXCEPT !.out = @ \o y.out, !.buf = y.buf]

\* yield from clear_comment_buffer()
SourceFile_clear_comment_buffer(st) ==
    [SourceFile_yield(st, st.comment_buffer) EXCEPT !.comment_buffer = <<>>]

\* is the child's command kept back for a table?
is_buffered(child) ==
    buffers_short_commands /\ child.type = "Command" /\ is_short_command(child)

\* the loops of format_block(TalonBlock) that iterate format_block(child):
\* list.extend collects a buffered command's lines, `yield from` hands the
\* lines of any other child to the consumer of the source file
SourceFile_depth(st, child) == IF is_buffered(child) THEN 0 ELSE st.depth

\* short_command_buffer.extend(self.format_block(child)) or
\* `yield from self.format_block(child)`, r what format_block(child) does:
\* the lines it yields are taken one by one, an exception ends the generator
SourceFile_lines(st, child, r) ==
    Let(r, LAMBDA x :
        IF is_buffered(child)
        THEN [st EXCEPT !.short_command_buffer = @ \o x.out, !.buf = x.buf,
                        !.err = x.err, !.at = x.at]
        ELSE [st EXCEPT !.out = @ \o x.out, !.buf = x.buf,
                        !.err = x.err, !.at = x.at])

\* does this child end the header?
ends_header(st, child) ==
    st.in_header /\ child.type \in {"IncludeTag", "Settings", "Command"}

\* SourceFile_end_header without `in_header = False`
SourceFile_end_header_stays_in_header(st, child) ==
    IF ends_header(st, child)
    THEN SourceFile_clear_comment_buffer(SourceFile_yield(st, <<Sep>>))
    ELSE st

\* the first body-only node: Text("-"), the header's comments, in_header = False
SourceFile_end_header(st, child) ==
    IF ends_header(st, child)
    THEN [SourceFile_clear_comment_buffer(SourceFile_yield(st, <<Sep>>))
             EXCEPT !.in_header = FALSE]
    ELSE st

\* SourceFile_context with the buffered comments yielded after the context
SourceFile_context_comments_below(st, child) ==
    Let(SourceFile_lines(st, child, format_block_within(child, st.buf, st.depth)),
        LAMBDA s1 : IF s1.err # "none" THEN s1
                    ELSE SourceFile_clear_comment_buffer(s1))

\* the Context branch of the loop after `assert in_header`
SourceFile_context(st, child) ==
    Let(SourceFile_clear_comment_buffer(st),
        LAMBDA s1 : SourceFile_lines(
                        s1, child, format_block_within(child, s1.buf, s1.depth)))

\* `yield from clear_short_command_buffer()` ahead of a child that is not
\* buffered
SourceFile_clear_short_command_buffer(st, child) ==
    IF buffers_short_commands /\ ~is_buffered(child)
    THEN [SourceFile_yield(st, clear_short_command_buffer(st.short_command_buffer))
             EXCEPT !.short_command_buffer = <<>>]
    ELSE st

\* SourceFile_body with the short-command buffer cleared after the child's lines
SourceFile_body_clears_late(st, child) ==
    Let(SourceFile_lines(st, child,
                         format_block_within(child, st.buf,
                                             SourceFile_depth(st, child))),
        LAMBDA s1 : IF s1.err # "none" THEN s1
                    ELSE SourceFile_clear_short_command_buffer(s1, child))

\* the else branch of the loop after the header test
SourceFile_body(st, child) ==
    Let(SourceFile_clear_short_command_buffer(st, child),
        LAMBDA s1 : SourceFile_lines(
                        s1, child,
                        format_block_within(child, s1.buf,
                                            SourceFile_depth(s1, child))))

SourceFile_child(st, child) ==
    IF st.in_header /\ IsComment(child)
    THEN [st EXCEPT !.comment_buffer = Append(@, format(child, st.buf).out)]
    ELSE IF child.type = "Context"
    THEN IF ~st.in_header
         THEN SourceFile_lines(st, child, Raise("AssertionError", 0, st.buf))
         ELSE SourceFile_context(st, child)
    ELSE SourceFile_body(SourceFile_end_header(st, child), child)

SourceFile_end(st) ==
    LET s1 == IF st.in_header
              THEN SourceFile_clear_comment_buffer(SourceFile_yield(st, <<Sep>>))
              ELSE st
    IN IF buffers_short_commands
       THEN [SourceFile_yield(s1, clear_short_command_buffer(
                                      s1.short_command_buffer))
                EXCEPT !.short_command_buffer = <<>>]
       ELSE s1

RECURSIVE SourceFile_loop(_, _)
SourceFile_loop(st, kids) ==
    IF kids = <<>> \/ st.err # "none" THEN st
    ELSE Let(SourceFile_child(st, Head(kids)),
             LAMBDA s1 : SourceFile_loop(s1, Tail(kids)))

\* format_block(TalonSourceFile)
TalonSourceFile_body(node, buf, depth) ==
    LET st == SourceFile_loop(SourceFile_start(buf, depth), node.children) IN
    IF st.err # "none"
    THEN [err |-> st.err, at |-> st.at, buf |-> st.buf, out |-> st.out]
    ELSE LET e == SourceFile_end(st) IN Ok(e.buf, e.out)

format_block_body(node, buf, depth) ==
    CASE node.type = "SourceFile" -> format_block_TalonSourceFile(node, buf, depth)
      [] node.type = "Context" ->
            format_block_TalonContext(node.children, buf, depth)
      [] node.type = "IncludeTag" -> format_block_TalonIncludeTag(node, buf, depth)
      [] node.type = "Settings" -> format_block_TalonSettings(node, buf, depth)
      [] node.type = "Command" -> format_block_TalonCommand(node, buf, depth)
      [] node.type = "Block" -> format_block_TalonBlock(node.children, buf, depth)
      [] node.type = "Assignment" -> format_block_TalonAssignment(node, buf, depth)
      [] node.type = "Expression" -> format_block_TalonExpression(node, buf, depth)
      [] node.type \in {"Comment", "Docstring"} ->
            Then(format(node, buf),
                 LAMBDA r : yield_lines(<<r.out>>, r.buf, depth))
      [] node.type \in MatchKinds ->
            format_block_match_within(node, FALSE, FALSE, buf, depth)
      [] node.type = "Error" -> Raise("ParseError", node.text, buf)
      [] OTHER -> Raise("TypeError", node.text, buf)

dispatch(fn, x, under_and, under_not, buf, depth) ==
    CASE fn = "format" -> format_body(x, buf)
      [] fn = "format_children" -> format_children_body(x, buf)
      [] fn = "format_fields" -> format_fields_body(x, buf)
      [] fn = "format_block" -> format_block_body(x, buf, depth)
      [] fn = "format_block_match" ->
            format_block_match_body(x, under_and, under_not, buf, depth)
      [] fn = "TalonContext" -> TalonContext_loop(x, buf, depth)
      [] fn = "TalonBlock" -> TalonBlock_loop(x, buf, depth)
      [] fn = "TalonAnd" -> TalonAnd_loop(x, under_and, under_not, buf, depth)
      [] fn = "TalonNot" -> TalonNot_loop(x, under_and, under_not, buf, depth)
      [] fn = "TalonOr" -> TalonOr_loop(x, under_and, under_not, buf, depth)
      [] fn = "TalonSourceFile" -> TalonSourceFile_body(x, buf, depth)

-----------------------------------------------------------------------------
(* The ASTs the model draws its inputs from.  `base` is the source position*)
(* the node starts at: a Comment or Error takes its position as its text,  *)
(* so that positions grow in document order.                               *)

Ident == Leaf("Identifier", 1)
Word(w) == Leaf("Word", w)

MkAtom(kind, pos) ==
    CASE kind = "comment" -> Comment(pos)
      [] kind = "error" -> Error(pos)
      [] kind = "identifier" -> Ident

AtomKinds == {"comment", "error", "identifier"}

\* the children lists of length n over `kinds`, child i at position base + i
KidSeqs(kinds, n, base) ==
    {[i \in 1..n |-> MkAtom(f[i], base + i)] : f \in [1..n -> kinds]}

KidLists(kinds, base) == UNION {KidSeqs(kinds, n, base) : n \in 0..MaxKids}

ArgumentList(kids) == Node("ArgumentList", 0, kids, <<>>)

\* what a field of an expression node may hold
Inners(base) == {Ident, Error(base + 1),
                 ArgumentList(<<Ident, Comment(base + 1), Ident>>)}

\* the fields of a node of FieldOnlyKinds, in the order format reads them
FieldsFor(type, x) ==
    CASE type = "Action" -> <<Ident, x>>                  \* action_name, arguments
      [] type = "BinaryOperator" -> <<Ident, Leaf("Operator", 1), x>>
      [] OTHER -> <<x>>

WrapperNodes(base) ==
    {Node(t, 0, ks, <<>>) : t \in WrapperKinds, ks \in KidLists(AtomKinds, base)}

ListNodes(base) ==
    {Node(t, 0, ks, <<>>) : t \in ListKinds, ks \in KidLists(AtomKinds, base)}

FieldOnlyNodes(base) ==
    {Node(t[1], 0, t[2], FieldsFor(t[1], t[3])) :
        t \in FieldOnlyKinds \X KidLists(AtomKinds, base) \X Inners(base + 10)}

\* statements: name(arg) of width w + 3, with and without comments inside
Call(w) == Node("Action", 0, <<>>, <<Leaf("Identifier", w), ArgumentList(<<Ident>>)>>)
Stmt(w) == Node("Expression", 0, <<>>, <<Call(w)>>)
StmtWithComments(base) ==
    Node("Expression", 0, <<Comment(base + 1)>>,
         <<Node("Action", 0, <<Comment(base + 2)>>,
                <<Ident, ArgumentList(<<Ident, Comment(base + 3), Ident>>)>>)>>)
Assignment(base) ==
    {Node("Assignment", 0, ks, <<Ident, x>>) :
        ks \in KidLists({"comment", "error"}, base), x \in Inners(base + 10)}

StmtWidths == {1, 6}

Block(kids) == Node("Block", 0, kids, <<>>)

Blocks(base) ==
    {Block(<<Stmt(w)>>) : w \in StmtWidths}
        \cup {Block(<<Stmt(1), Stmt(1)>>),
              Block(<<Comment(base + 1), Stmt(1)>>),
              Block(<<StmtWithComments(base + 10)>>),
              Block(<<Stmt(1), Comment(base + 20), StmtWithComments(base + 30)>>),
              Block(<<Stmt(1), Error(base + 20)>>)}

Rule(kids) == Node("Rule", 0, kids, <<>>)

Rules(base) ==
    {Rule(<<Word(2)>>), Rule(<<Word(2), Word(2)>>),
     Rule(<<Word(2), Comment(base + 1)>>),
     Rule(<<Node("Seq", 0, <<Word(2), Comment(base + 1), Word(2)>>, <<>>)>>),
     Rule(<<Word(2), Error(base + 1)>>)}

CommandKids(base) ==
    {<<>>, <<Comment(base + 1)>>, <<Comment(base + 1), Comment(base + 2)>>,
     <<Error(base + 1)>>}

Command(rule, kids, script) == Node("Command", 0, kids, <<rule, script>>)

Commands(base) ==
    {Command(t[1], t[2], t[3]) :
        t \in Rules(base) \X CommandKids(base + 10) \X Blocks(base + 100)}

IncludeTags(base) ==
    {Node("IncludeTag", 0, ks, <<Ident>>) : ks \in KidLists(AtomKinds, base)}

SettingsNodes(base) ==
    {Node("Settings", 0, ks, <<>>) :
        ks \in {<<>>, <<Block(<<Stmt(1)>>)>>,
                <<Comment(base + 1), Block(<<Stmt(1)>>)>>,
                <<Comment(base + 1), Block(<<Comment(base + 2), Stmt(1)>>)>>,
                <<Block(<<Stmt(1)>>), Block(<<Stmt(1)>>)>>,
                <<Error(base + 1), Block(<<Stmt(1)>>)>>,
                <<Ident>>} \cup {<<Block(<<a>>)>> : a \in Assignment(base + 10)}}

Match(kids) ==
    Node("Match", 0, kids, <<Ident, Leaf("ImplicitString", 1)>>)

CombinatorKinds == {"And", "Not", "Or"}

\* a Match, bare or holding a comment, or a Comment
Matches0(base) == {Match(<<>>), Match(<<Comment(base + 1)>>)}
MatchKids0(base) == Matches0(base) \cup {Comment(base)}

\* the lists of length n, child i drawn from Pick(base + stride * i)
MatchSeqs(Pick(_), n, base, stride) ==
    {f \in [1..n -> UNION {Pick(base + stride * i) : i \in 1..n}] :
        \A i \in 1..n : f[i] \in Pick(base + stride * i)}

\* combinators over matches and comments
Matches1(base) ==
    {Node(t, 0, ks, <<>>) :
        t \in CombinatorKinds,
        ks \in UNION {MatchSeqs(MatchKids0, n, base, 10) : n \in 1..MaxMatches}}

\* combinators with a combinator among their children
Matches2(base) ==
    {Node(t[1], 0, t[2], <<>>) :
        t \in CombinatorKinds \X
              UNION {{<<x>>, <<m, x>>} :
                        x \in Matches1(base + 200), m \in MatchKids0(base + 100)}}
      \cup
    {Node(t[1], 0, t[2], <<>>) :
        t \in CombinatorKinds \X
              {<<x, m>> : x \in Matches1(base + 100), m \in MatchKids0(base + 400)}}

MatchTrees(base) == Matches0(base) \cup Matches1(base) \cup Matches2(base)

Contexts(base) ==
    {Node("Context", 0, <<t>>, <<>>) : t \in MatchTrees(base)}
        \cup {Node("Context", 0, ks, <<>>) :
                ks \in {<<>>, <<Comment(base + 1), Match(<<>>)>>,
                        <<Match(<<Error(base + 1)>>)>>,
                        <<Match(<<>>), Error(base + 1)>>,
                        <<Node("And", 0, <<Match(<<>>), Error(base + 1)>>, <<>>)>>}}

\* every node format is called on
FormatNodes ==
    WrapperNodes(0) \cup ListNodes(0) \cup FieldOnlyNodes(0) \cup Assignment(0)
        \cup Blocks(0) \cup Commands(0) \cup IncludeTags(0) \cup SettingsNodes(0)
        \cup Contexts(0) \cup {Comment(1), Error(1), Leaf("Docstring", 1)}
        \cup Matches0(0)

AlignValues == {PyBool(FALSE), PyBool(TRUE), PyInt(5)}

Formatters ==
    {[indent_size |-> 4, align_match_context |-> a, align_short_commands |-> b] :
        a \in AlignValues, b \in AlignValues}

-----------------------------------------------------------------------------
(* SpecFmt: one call on a fresh TalonFormatter *)

NoCall == [op |-> "none", node |-> Ident, under_and |-> FALSE, under_not |-> FALSE]

\* no thread has been started
ConcIdle == threads = <<>> /\ buffers = <<>>

SrcIdle ==
    /\ children = <<>>
    /\ in_header = TRUE
    /\ comment_buffer = <<>>
    /\ short_command_buffer = <<>>
    /\ out = <<>>
    /\ pc = "loop"
    /\ raised = 0

InitFmt ==
    /\ self \in Formatters
    /\ _comment_buffer = <<>>
    /\ call = NoCall
    /\ ret = Ok(<<>>, <<>>)
    /\ SrcIdle
    /\ ConcIdle

\* formatter.format(node)
CallFormat ==
    /\ call.op = "none"
    /\ \E node \in FormatNodes :
          /\ call' = [NoCall EXCEPT !.op = "format", !.node = node]
          /\ ret' = format(node, _comment_buffer)
          /\ _comment_buffer' = ret'.buf
    /\ UNCHANGED <<self, srcVars, concVars>>

\* list(formatter.format_block_match(match, under_and=..., under_not=...))
CallFormatBlockMatch ==
    /\ call.op = "none"
    /\ \E match \in MatchTrees(0), under_and \in BOOLEAN, under_not \in BOOLEAN :
          /\ call' = [op |-> "format_block_match", node |-> match,
                      under_and |-> under_and, under_not |-> under_not]
          /\ ret' = Lost(format_block_match(match, under_and, under_not,
                                            _comment_buffer))
          /\ _comment_buffer' = ret'.buf
    /\ UNCHANGED <<self, srcVars, concVars>>

\* is_short_command(node)
CallIsShortCommand ==
    /\ call.op = "none"
    /\ \E node \in Commands(0) :
          /\ call' = [NoCall EXCEPT !.op = "is_short_command", !.node = node]
          /\ ret' = Ok(_comment_buffer, is_short_command(node))
    /\ UNCHANGED <<self, _comment_buffer, srcVars, concVars>>

NextFmt == CallFormat \/ CallFormatBlockMatch \/ CallIsShortCommand

vars == <<self, _comment_buffer, fmtVars, srcVars, concVars>>

SpecFmt == InitFmt /\ [][NextFmt]_vars

-----------------------------------------------------------------------------
(* Spec: format_block(TalonSourceFile), one pass of its loop per step.  The*)
(* children of the source file are chosen as the loop reaches them.        *)

ShortCommand(base) == Command(Rule(<<Word(2)>>), <<>>, Block(<<Stmt(1)>>))

TopLevelNodes(base) ==
    {Comment(base + 1), Error(base + 1),
     Node("Context", 0, <<Match(<<>>)>>, <<>>),
     Node("Context", 0,
          <<Node("And", 0, <<Comment(base + 1), Match(<<Comment(base + 2)>>)>>,
                 <<>>)>>, <<>>),
     Node("IncludeTag", 0, <<>>, <<Ident>>),
     Node("IncludeTag", 0, <<Comment(base + 1)>>, <<Ident>>),
     Node("Settings", 0,
          <<Comment(base + 1), Block(<<Comment(base + 2), Stmt(1)>>)>>, <<>>),
     ShortCommand(base),
     Command(Rule(<<Word(2)>>), <<>>, Block(<<Stmt(6)>>)),
     Command(Rule(<<Word(2), Comment(base + 1)>>), <<>>,
             Block(<<StmtWithComments(base + 10)>>)),
     Command(Rule(<<Word(2)>>), <<Comment(base + 1)>>, Block(<<Stmt(1)>>)),
     Command(Rule(<<Word(2), Word(2)>>), <<>>, Block(<<Stmt(1), Stmt(1)>>))}

\* source positions of the children of top-level child number i
Base(i) == 1000 * i

SrcFormatters == {f \in Formatters : f.align_match_context = PyBool(FALSE)}

Init ==
    /\ self \in SrcFormatters
    /\ _comment_buffer = <<>>
    /\ call = NoCall
    /\ ret = Ok(<<>>, <<>>)
    /\ SrcIdle
    /\ ConcIdle

\* the generator's state, as SourceFile_child takes it
Locals ==
    [in_header |-> in_header, comment_buffer |-> comment_buffer,
     short_command_buffer |-> short_command_buffer, buf |-> _comment_buffer,
     out |-> out, err |-> "none", at |-> 0, depth |-> 0]

Resume(st) ==
    /\ in_header' = st.in_header
    /\ comment_buffer' = st.comment_buffer
    /\ short_command_buffer' = st.short_command_buffer
    /\ _comment_buffer' = st.buf
    /\ out' = st.out
    /\ raised' = st.at

Moved(st) ==
    /\ Resume(st)
    /\ pc' = IF st.err = "none" THEN "loop" ELSE st.err

\* one pass of the loop over node.children
Pass(child) ==
    /\ pc = "loop"
    /\ Len(children) < MaxChildren
    /\ children' = Append(children, child)
    /\ \E st \in {SourceFile_child(Locals, child)} : Moved(st)
    /\ UNCHANGED <<self, fmtVars, concVars>>

NextChildren == TopLevelNodes(Base(Len(children) + 1))

\* if in_header and isinstance(child, TalonComment)
HeaderComment ==
    \E child \in NextChildren : in_header /\ IsComment(child) /\ Pass(child)

\* elif isinstance(child, TalonContext)
ContextChild ==
    \E child \in NextChildren :
        ~(in_header /\ IsComment(child)) /\ child.type = "Context" /\ Pass(child)

\* else, a short command going to the short-command buffer
BufferedShortCommand ==
    \E child \in NextChildren :
        /\ ~(in_header /\ IsComment(child)) /\ child.type # "Context"
        /\ buffers_short_commands /\ child.type = "Command" /\ is_short_command(child)
        /\ Pass(child)

\* else, every other child
BodyChild ==
    \E child \in NextChildren :
        /\ ~(in_header /\ IsComment(child)) /\ child.type # "Context"
        /\ ~(buffers_short_commands /\ child.type = "Command" /\ is_short_command(child))
        /\ Pass(child)

\* node.children is exhausted
EndOfFile ==
    /\ pc = "loop"
    /\ \E st \in {SourceFile_end(Locals)} : Resume(st)
    /\ pc' = "done"
    /\ UNCHANGED <<self, fmtVars, children, concVars>>

Next == HeaderComment \/ ContextChild \/ BufferedShortCommand \/ BodyChild \/ EndOfFile

Spec == Init /\ [][Next]_vars

-----------------------------------------------------------------------------
(* What the claims speak of *)

Range(seq) == {seq[i] : i \in DOMAIN seq}

\* the comments a Doc shows, top to bottom (both layouts of a command hold
\* the same script)
RECURSIVE DocComments(_), DocsComments(_)
DocComments(d) ==
    CASE d.k = "comment" -> <<d.text>>
      [] d.k = "join" -> DocsComments(d.lines)
      [] d.k = "alt" -> DocComments(d.alts[1])
      [] d.k = "expanded" -> DocComments(d.script)
      [] d.k = "settings" -> DocComments(d.block)
      [] d.k = "tables" -> DocsComments(d.docs)
      [] OTHER -> <<>>
DocsComments(docs) ==
    IF docs = <<>> THEN <<>>
    ELSE DocComments(Head(docs)) \o DocsComments(Tail(docs))

\* the texts of the nodes of one type in a tree
RECURSIVE TextsOf(_, _), TextsIn(_, _)
TextsOf(type, node) ==
    (IF node.type = type THEN {node.text} ELSE {})
        \cup TextsIn(type, node.children) \cup TextsIn(type, node.fields)
TextsIn(type, nodes) ==
    IF nodes = <<>> THEN {}
    ELSE TextsOf(type, Head(nodes)) \cup TextsIn(type, Tail(nodes))

Ascending(seq) == \A i, j \in DOMAIN seq : i < j => seq[i] < seq[j]

NonComments(kids) == SelectSeq(kids, LAMBDA n : ~IsComment(n))
CommentsAmong(kids) == SelectSeq(kids, IsComment)

\* the place of the first child that is no comment, 0 if there is none
FirstNonComment(kids) ==
    IF \E i \in DOMAIN kids : ~IsComment(kids[i])
    THEN CHOOSE i \in DOMAIN kids :
            ~IsComment(kids[i]) /\ \A j \in 1..(i - 1) : IsComment(kids[j])
    ELSE 0

IsMatchLine(d) == d.k = "alt" /\ d.alts[1].k = "plain" /\ d.alts[1].left.k = "key"
IsCommandDoc(d) == d.k = "alt" /\ d.alts[1].k = "expanded"
IsShortRow(d) == IsCommandDoc(d) /\ d.alts[2].k = "row"
KeywordsOf(d) == d.alts[1].left.keywords

Formatted(op, type) == call.op = op /\ call.node.type = type /\ ret.err = "none"

-----------------------------------------------------------------------------
(* C1: when the source-file formatter finishes, the Docs it yielded hold   *)
(* exactly one "-" separator; every line of a Context is above it, the     *)
(* output of every body node below it, and without a Context it is the     *)
(* first Doc yielded.                                                      *)

SepPlaces == {i \in DOMAIN out : out[i] = Sep}
ContextComments ==
    UNION {TextsOf("Comment", children[i]) :
              i \in {j \in DOMAIN children : children[j].type = "Context"}}

C1_OneSeparator ==
    pc = "done" =>
        /\ Cardinality(SepPlaces) = 1
        /\ \A i \in DOMAIN out : out[i].k = "tables" => Sep \notin Range(out[i].docs)
        /\ \A s \in SepPlaces :
              /\ \A i \in 1..(s - 1) : IsMatchLine(out[i]) \/ out[i].k = "comment"
              /\ \A i \in (s + 1)..Len(out) :
                    /\ ~IsMatchLine(out[i])
                    /\ out[i].k = "comment" => out[i].text \notin ContextComments
              /\ (\A i \in DOMAIN children : children[i].type # "Context") => s = 1

C1_Witness ==
    /\ pc = "done"
    /\ Len(children) = 3
    /\ IsComment(children[1])
    /\ children[2].type = "Context"
    /\ children[3].type = "Command"
    /\ out[Len(out) - 1] = Sep

-----------------------------------------------------------------------------
(* C2: the Match that is the first non-comment child of a Not node is      *)
(* rendered with the "not " keyword in front of its key.                   *)

C2_NotPrefix ==
    Formatted("format_block_match", "Not") =>
        LET i == FirstNonComment(call.node.children) IN
        (i # 0 /\ call.node.children[i].type = "Match") =>
            /\ Len(KeywordsOf(ret.out[i])) >= 2
            /\ SubSeq(KeywordsOf(ret.out[i]), Len(KeywordsOf(ret.out[i])) - 1,
                      Len(KeywordsOf(ret.out[i]))) = <<"not", " ">>

-----------------------------------------------------------------------------
(* C3: under And, the first match keeps the under_and the And node was     *)
(* given and every later match has "and "; comment children are lines of   *)
(* their own and change nothing; with under_not too the prefix is          *)
(* "and not ".                                                             *)

\* the prefix the claim gives a match line
PrefixFor(under_and, under_not) ==
    IF under_and /\ under_not THEN <<"and", " ", "not", " ">>
    ELSE IF under_and THEN <<"and", " ">>
    ELSE IF under_not THEN <<"not", " ">>
    ELSE <<>>

\* a tree of And nodes, matches and comments
RECURSIVE OnlyAnd(_)
OnlyAnd(node) ==
    \/ node.type \in {"Match", "Comment"}
    \/ /\ node.type = "And"
       /\ \A i \in DOMAIN node.children : OnlyAnd(node.children[i])

\* the lines the claim expects of the children of an And node: a comment's
\* text, or a match's prefix
RECURSIVE AndLines(_, _, _)
AndLines(kids, under_and, under_not) ==
    IF kids = <<>> THEN <<>>
    ELSE LET child == Head(kids) IN
         IF IsComment(child)
         THEN <<[comment |-> child.text]>> \o AndLines(Tail(kids), under_and, under_not)
         ELSE (IF child.type = "And"
               THEN AndLines(child.children, under_and, under_not)
               ELSE <<[prefix |-> PrefixFor(under_and, under_not)]>>)
                  \o AndLines(Tail(kids), TRUE, under_not)

LineSeen(d) ==
    IF d.k = "comment" THEN [comment |-> d.text] ELSE [prefix |-> KeywordsOf(d)]

C3_AndPrefix ==
    (call.op = "format_block_match" /\ call.node.type = "And" /\ OnlyAnd(call.node)) =>
        /\ ret.err = "none"
        /\ [i \in DOMAIN ret.out |-> LineSeen(ret.out[i])]
              = AndLines(call.node.children, call.under_and, call.under_not)

C3_Witness ==
    /\ Formatted("format_block_match", "And")
    /\ ~call.under_and /\ call.under_not
    /\ Len(call.node.children) = 2
    /\ IsComment(call.node.children[1])
    /\ call.node.children[2].type = "And"
    /\ Len(ret.out) = 3
    /\ IsMatchLine(ret.out[2]) /\ IsMatchLine(ret.out[3])
    /\ KeywordsOf(ret.out[2]) = <<"not", " ">>
    /\ KeywordsOf(ret.out[3]) = <<"and", " ", "not", " ">>

-----------------------------------------------------------------------------
(* C4: formatting an AST that holds an Error node raises ParseError for an *)
(* Error node of that AST, wherever the node is.                           *)

C4_ErrorRaisesParseError ==
    (call.op = "format" /\ TextsOf("Error", call.node) # {}) =>
        /\ ret.err = "ParseError"
        /\ ret.at \in TextsOf("Error", call.node)

-----------------------------------------------------------------------------
(* C5: is_short_command.  As claimed: true exactly when the rule has one   *)
(* child and the script one statement, comments not counted.  As the code  *)
(* has it: true exactly when the command's own children and the children   *)
(* of its script block, comments included, are one node in all; the rule   *)
(* is not looked at.                                                       *)

C5_ShortIgnoresComments ==
    call.op = "is_short_command" =>
        (ret.out <=>
            /\ Len(NonComments(call.node.fields[1].children)) = 1
            /\ Len(NonComments(call.node.fields[2].children)) = 1)

C5_ShortCountsComments ==
    call.op = "is_short_command" =>
        (ret.out <=>
            \/ /\ call.node.children = <<>>
               /\ Len(call.node.fields[2].children) = 1
            \/ /\ Len(call.node.children) = 1
               /\ call.node.fields[2].children = <<>>)

C5_Witness ==
    /\ call.op = "is_short_command"
    /\ ~ret.out
    /\ Len(call.node.children) = 1 /\ IsComment(call.node.children[1])
    /\ Len(call.node.fields[1].children) = 1
    /\ Len(call.node.fields[2].children) = 1

-----------------------------------------------------------------------------
(* The renderer's choice between the alternatives of a command (design     *)
(* sections 3.2 and 4.2; the renderer is doc_printer's, not in the         *)
(* sources).  Alt(a, b): a is attempted in Flat mode, where a Line is one  *)
(* space; the attempt fails when the line grows beyond max_line_width, at  *)
(* a HardLine and at Fail, and then b is taken.  When b is Fail too, every *)
(* branch has failed and a is laid out in Break mode, where a Line is a    *)
(* newline.  The formatter builds no HardLine.                             *)

LineWidths == {6, 7, 8, 11, 12, 13, 80}

\* the columns a Doc takes in Flat mode (4.2, steps 4 to 6 and 10): a Text
\* its width, a Space and a Line one column; a comment of the inputs is "#"
\* and one character, a docstring "###" and one character
RECURSIVE FlatWidth(_)
FlatWidth(d) ==
    CASE d.k = "text" -> d.w
      [] d.k = "comment" -> 2
      [] d.k = "docstring" -> 4
      [] d.k = "join" ->                              \* Line.join(lines)
            IF d.lines = <<>> THEN 0
            ELSE FlatWidth(Head(d.lines))
                    + (IF Len(d.lines) = 1 THEN 0
                       ELSE 1 + FlatWidth(Join(Tail(d.lines))))
      [] d.k = "expanded" ->                          \* rule:, Line, script, Line
            FlatWidth(d.rule) + 1 + 1 + FlatWidth(d.script) + 1
      [] d.k = "plain" ->                             \* rule:, Space, script
            FlatWidth(d.left) + 1 + 1 + FlatWidth(d.right)
      [] d.k = "row" ->                               \* cell, one space, cell
            (IF d.min_col_widths # <<>>
                   /\ d.min_col_widths[1] > FlatWidth(d.left) + 1
             THEN d.min_col_widths[1] ELSE FlatWidth(d.left) + 1)
                + 1 + FlatWidth(d.right)
      [] OTHER -> 0

\* 4.2, steps 8 and 9: the attempt of d in Flat mode succeeds
FlatAttempt(d, max_line_width) ==
    d # Fail /\ FlatWidth(d) <= max_line_width

\* 4.2, step 8 and the error conditions: the alternative of alt(a, b) the
\* renderer commits to, and the mode it lays it out in
Render(alts, max_line_width) ==
    IF FlatAttempt(alts[1], max_line_width) THEN [alt |-> 1, mode |-> "Flat"]
    ELSE IF alts[2] # Fail THEN [alt |-> 2, mode |-> "Break"]
    ELSE [alt |-> 1, mode |-> "Break"]

-----------------------------------------------------------------------------
(* C6: the Doc of a command is Alt(expanded, short).  When the block has   *)
(* one statement the renderer takes the short form `rule: statement` if    *)
(* that fits in max_line_width, and the expanded form, `rule:` and the     *)
(* block on lines of its own below, if it does not; when the block has     *)
(* more than one child the short alternative is Fail and the expanded      *)
(* alternative is taken at every width.                                    *)

CommandDoc == ret.out.lines[Len(ret.out.lines)]
MergedBlock == block_with_comments(call.node.children, call.node.fields[2])

\* `rule: statement` for the rule and the script of the command's Doc
ShortForm ==
    format_short_command(CommandDoc.alts[1].rule, CommandDoc.alts[1].script)

C6_ShortWhenItFits ==
    Formatted("format", "Command") =>
        /\ IsCommandDoc(CommandDoc)
        /\ Len(CommandDoc.alts) = 2
        /\ \A max_line_width \in LineWidths :
              LET chosen == Render(CommandDoc.alts, max_line_width)
              IN IF Len(MergedBlock.children) = 1
                 THEN IF FlatWidth(ShortForm) <= max_line_width
                      THEN CommandDoc.alts[chosen.alt] = ShortForm
                      ELSE chosen = [alt |-> 1, mode |-> "Break"]
                 ELSE Len(MergedBlock.children) > 1 =>
                         /\ CommandDoc.alts[2] = Fail
                         /\ chosen.alt = 1

-----------------------------------------------------------------------------
(* C7: when a source file has been formatted, every Comment of it is in    *)
(* the output once and the comments are in the order of the source.        *)

AllComments == UNION {TextsOf("Comment", children[i]) : i \in DOMAIN children}

C7_CommentsOnceInOrder ==
    pc = "done" =>
        /\ Ascending(DocsComments(out))
        /\ Range(DocsComments(out)) = AllComments

-----------------------------------------------------------------------------
(* C8: the Comment children of a Command.  As claimed: each is a line of   *)
(* its own above the line of the rule, not in the script block.  As the    *)
(* code has it: they are the first lines of the script block, under the    *)
(* rule, in their order; above the rule are the comments met inside the    *)
(* rule and nothing else.                                                  *)

LinesAbove == SubSeq(ret.out.lines, 1, Len(ret.out.lines) - 1)
OwnComments ==
    [i \in DOMAIN CommentsAmong(call.node.children) |->
        CommentDoc(CommentsAmong(call.node.children)[i])]

C8_CommentAboveRule ==
    Formatted("format", "Command") =>
        \A c \in Range(OwnComments) :
            /\ c \in Range(LinesAbove)
            /\ c \notin Range(CommandDoc.alts[1].script.lines)

C8_CommentLeadsScript ==
    Formatted("format", "Command") =>
        /\ IsCommandDoc(CommandDoc)
        /\ Len(CommandDoc.alts[1].script.lines) >= Len(OwnComments)
        /\ SubSeq(CommandDoc.alts[1].script.lines, 1, Len(OwnComments)) = OwnComments
        /\ Range(LinesAbove) =
              {[k |-> "comment", text |-> t] :
                  t \in TextsOf("Comment", call.node.fields[1])}
        /\ Range(OwnComments) \cap Range(LinesAbove) = {}

C8_Witness ==
    /\ Formatted("format", "Command")
    /\ Len(OwnComments) = 2
    /\ Len(LinesAbove) = 1
    /\ Len(CommandDoc.alts[1].script.lines) = 3

-----------------------------------------------------------------------------
(* C10: align_short_commands = N, an int of 1 or more.  As claimed: the    *)
(* short commands are buffered and flushed through create_tables as with   *)
(* True.  As the code has it: the short form is a row of kind "command"    *)
(* with min_col_widths (N,), but nothing is buffered: the Doc of every     *)
(* command is yielded where the command stands and create_tables is not    *)
(* called; with True no row of a short command is yielded outside a table. *)

IntAligned ==
    self.align_short_commands.py = "int" /\ self.align_short_commands.val >= 1

CommandDocs == SelectSeq(out, IsCommandDoc)
CommandChildren == SelectSeq(children, LAMBDA n : n.type = "Command")

C10_IntBuffersLikeTrue ==
    (pc = "done" /\ IntAligned) => \A i \in DOMAIN out : ~IsShortRow(out[i])

C10_IntYieldsRowsInPlace ==
    /\ IntAligned =>
          /\ short_command_buffer = <<>>
          /\ \A i \in DOMAIN out : out[i].k # "tables"
          /\ pc \in {"loop", "done"} =>
                /\ Len(CommandDocs) = Len(CommandChildren)
                /\ \A i \in DOMAIN CommandDocs :
                      IF is_short_command(CommandChildren[i])
                      THEN /\ CommandDocs[i].alts[2].k = "row"
                           /\ CommandDocs[i].alts[2].table_type = "command"
                           /\ CommandDocs[i].alts[2].min_col_widths
                                 = <<self.align_short_commands.val>>
                      ELSE CommandDocs[i].alts[2].k # "plain"
    /\ IsTrue(self.align_short_commands) =>
          \A i \in DOMAIN out : ~IsShortRow(out[i])

C10_Witness ==
    /\ pc = "done"
    /\ IntAligned
    /\ Len(children) = 3
    /\ \A i \in DOMAIN children :
          children[i].type = "Command" /\ is_short_command(children[i])
    /\ Len(out) = 4
    /\ \A i \in 2..4 : IsShortRow(out[i])

-----------------------------------------------------------------------------
(* SpecConc: two threads, each calling format_block on a TalonSourceFile   *)
(* of its own with a TalonFormatter of its own.  A thread can be suspended *)
(* between any two steps; the steps here are one pass of the source-file   *)
(* loop, cut in two where a handler first stores comments in               *)
(* _comment_buffer and then reads them back.                               *)

Threads == {1, 2}
ConcMaxChildren == 2

\* dataclasses.field(default_factory=list, init=False): every instance gets a
\* list of its own; the buffer thread t's formatter uses
BufOf_class_attribute(t) == 1
BufOf(t) == t

\* the top-level nodes of a thread's source file: the first thread's file
\* has nodes of every kind, the second's the nodes that use _comment_buffer
ConcNodes(t, base) ==
    {Node("IncludeTag", 0, <<Comment(base + 1)>>, <<Ident>>),
     Command(Rule(<<Word(2), Comment(base + 1)>>), <<Comment(base + 11)>>,
             Block(<<Stmt(1)>>))}
        \cup (IF t = 1
              THEN {Comment(base + 1),
                    Node("Settings", 0,
                         <<Comment(base + 1), Block(<<Stmt(1)>>)>>, <<>>),
                    ShortCommand(base)}
              ELSE {})

\* the children lists of a thread's source file, child i at base + 100 * i
RECURSIVE ConcFilesOfLen(_, _)
ConcFilesOfLen(n, t) ==
    IF n = 0 THEN {<<>>}
    ELSE {Append(f, c) : f \in ConcFilesOfLen(n - 1, t),
                         c \in ConcNodes(t, Base(t) + 100 * n)}
ConcFiles(t) == UNION {ConcFilesOfLen(n, t) : n \in 1..ConcMaxChildren}

ConcFormatters == {f \in SrcFormatters : f.align_short_commands = PyBool(TRUE)}

StoresThenReads == {"IncludeTag", "Settings", "Command"}

InitConc ==
    /\ self \in ConcFormatters
    /\ _comment_buffer = <<>>
    /\ call = NoCall
    /\ ret = Ok(<<>>, <<>>)
    /\ SrcIdle
    /\ \E f1 \in ConcFiles(1), f2 \in ConcFiles(2) :
          threads = [t \in Threads |->
                        [children |-> IF t = 1 THEN f1 ELSE f2, i |-> 0,
                         pc |-> "loop", mid |-> Fail,
                         st |-> SourceFile_start(<<>>, 0)]]
    /\ buffers = [b \in Threads |-> <<>>]

\* the thread's locals as it resumes, with the buffer its formatter holds
ConcLocals(t) == [threads[t].st EXCEPT !.buf = buffers[BufOf(t)]]
ConcChild(t) == threads[t].children[threads[t].i + 1]

\* the thread is suspended again: its locals, and its formatter's buffer
ConcMoved(t, st, i, pc_, mid) ==
    /\ threads' = [threads EXCEPT ![t].st = st, ![t].i = i, ![t].mid = mid,
                                  ![t].pc = IF st.err = "none" THEN pc_ ELSE st.err]
    /\ buffers' = [buffers EXCEPT ![BufOf(t)] = st.buf]
    /\ UNCHANGED <<self, _comment_buffer, fmtVars, srcVars>>

\* the first half of format_block(child), r its result: no line is yielded
\* in it
ConcStored(t, st, child, r) ==
    IF r.err # "none"
    THEN ConcMoved(t, SourceFile_lines(st, child, Lost(r)), threads[t].i,
                   "raised", Fail)
    ELSE ConcMoved(t, [st EXCEPT !.buf = r.buf], threads[t].i, "emit", r.out)

ConcStoreHalf(child, buf) ==
    CASE child.type = "IncludeTag" -> IncludeTag_store(child, buf)
      [] child.type = "Settings" -> Settings_store(child, buf)
      [] child.type = "Command" -> Command_store(child, buf)

ConcEmitHalf(child, mid, buf) ==
    CASE child.type = "IncludeTag" -> IncludeTag_emit(child, buf, 0)
      [] child.type = "Settings" -> Settings_emit(mid, buf, 0)
      [] child.type = "Command" -> Command_emit(child, mid, buf, 0)

\* a pass of the loop that does not store comments and read them back
ConcPass(t) ==
    /\ threads[t].pc = "loop"
    /\ threads[t].i < Len(threads[t].children)
    /\ (ConcLocals(t).in_header /\ IsComment(ConcChild(t)))
          \/ ConcChild(t).type \notin StoresThenReads
    /\ \E st \in {SourceFile_child(ConcLocals(t), ConcChild(t))} :
          ConcMoved(t, st, threads[t].i + 1, "loop", Fail)

\* a pass up to where the handler has stored the comments it met
ConcStore(t) ==
    /\ threads[t].pc = "loop"
    /\ threads[t].i < Len(threads[t].children)
    /\ ConcChild(t).type \in StoresThenReads
    /\ \E st \in {SourceFile_clear_short_command_buffer(
                       SourceFile_end_header(ConcLocals(t), ConcChild(t)),
                       ConcChild(t))},
          r \in {ConcStoreHalf(ConcChild(t), buffers[BufOf(t)])} :
          ConcStored(t, st, ConcChild(t), r)

\* the rest of the pass, from where the handler reads the buffer
ConcEmit(t) ==
    /\ threads[t].pc = "emit"
    /\ \E st \in {SourceFile_lines(ConcLocals(t), ConcChild(t),
                                    ConcEmitHalf(ConcChild(t), threads[t].mid,
                                                 buffers[BufOf(t)]))} :
          ConcMoved(t, st, threads[t].i + 1, "loop", Fail)

\* node.children is exhausted
ConcEnd(t) ==
    /\ threads[t].pc = "loop"
    /\ threads[t].i = Len(threads[t].children)
    /\ \E st \in {SourceFile_end(ConcLocals(t))} :
          ConcMoved(t, st, threads[t].i, "done", Fail)

PassStep == \E t \in Threads : ConcPass(t)
StoreStep == \E t \in Threads : ConcStore(t)
EmitStep == \E t \in Threads : ConcEmit(t)
EndStep == \E t \in Threads : ConcEnd(t)

NextConc == PassStep \/ StoreStep \/ EmitStep \/ EndStep

SpecConc == InitConc /\ [][NextConc]_vars

-----------------------------------------------------------------------------
(* C9: two threads format disjoint source files, each with a formatter of  *)
(* its own.  However their steps interleave, a formatter's buffer and a    *)
(* thread's output hold comments of that thread's input only, and a thread *)
(* that has finished has yielded, or raised, what format_block yields or   *)
(* raises for its source file when run alone.                              *)

Alone(t) ==
    format_block(Node("SourceFile", 0, threads[t].children, <<>>), <<>>)

OwnCommentsOf(t) == TextsIn("Comment", threads[t].children)

C9_NoInterference ==
    \A t \in DOMAIN threads :
        /\ {buffers[BufOf(t)][j].text : j \in DOMAIN buffers[BufOf(t)]}
              \subseteq OwnCommentsOf(t)
        /\ Range(DocsComments(threads[t].st.out)) \subseteq OwnCommentsOf(t)
        /\ threads[t].pc = "done" =>
              Alone(t).err = "none" /\ Alone(t).out = threads[t].st.out
        /\ threads[t].pc \notin {"loop", "emit", "done"} =>
              Alone(t).err = threads[t].pc /\ Alone(t).at = threads[t].st.at

C9_Witness ==
    /\ DOMAIN threads = Threads
    /\ \A t \in Threads :
          /\ threads[t].pc = "emit"
          /\ threads[t].i = 1
          /\ buffers[BufOf(t)] # <<>>
          /\ DocsComments(threads[t].st.out) # <<>>

-----------------------------------------------------------------------------
(* C11: a node that must have exactly one non-comment child and has none   *)
(* or several, and a node that may have comment children only and has      *)
(* another child, fail with AssertionError: no Doc is returned and no      *)
(* other exception raised.                                                 *)

OneChildKinds == WrapperKinds \cup {"Settings"}
CommentsOnlyKinds ==
    FieldOnlyKinds \cup {"Match", "IncludeTag", "Assignment", "Expression"}

Malformed(node) ==
    \/ node.type \in OneChildKinds /\ Len(NonComments(node.children)) # 1
    \/ node.type \in CommentsOnlyKinds /\ Len(NonComments(node.children)) >= 1

C11_MalformedAsserts ==
    (call.op \in {"format", "format_block_match"}
        /\ (call.op = "format_block_match" <=> call.node.type = "Match")
        /\ Malformed(call.node))
    => ret.err = "AssertionError"

-----------------------------------------------------------------------------
(* C12: _comment_buffer is empty whenever the source-file formatter is     *)
(* back in its loop after a top-level child was formatted without error,   *)
(* whatever comments were inside the child, and when it has finished.      *)

C12_BufferDrained ==
    pc \in {"loop", "done"} => _comment_buffer = <<>>

\* the comments that went through _comment_buffer: those below the top level
NestedComments ==
    UNION {TextsIn("Comment", children[i].children)
              \cup TextsIn("Comment", children[i].fields) : i \in DOMAIN children}

C12_Witness ==
    /\ pc = "done"
    /\ _comment_buffer = <<>>
    /\ \E i \in DOMAIN children : children[i].type = "Context"
    /\ \E i \in DOMAIN children : children[i].type = "Settings"
    /\ \E i \in DOMAIN children :
          /\ children[i].type = "Command"
          /\ Cardinality(TextsOf("Comment", children[i])) >= 4
    /\ Cardinality(NestedComments) >= 8
    /\ NestedComments \subseteq Range(DocsComments(out))

-----------------------------------------------------------------------------
(* C13: align_short_commands = True.  When the source-file formatter has   *)
(* finished, the tables it made are the maximal runs of consecutive short  *)
(* commands, one table a run, each where its run stands: before the output *)
(* of the node that ended the run, or at the end.  No table holds rows of  *)
(* two runs, no short command's row is outside a table, the short-command  *)
(* buffer is empty, and the children's outputs are there once each in the  *)
(* order of the source.                                                    *)

IsShortChild(child) == child.type = "Command" /\ is_short_command(child)

\* what format_block yields for a top-level child on its own
ChildOut(child) == format_block(child, <<>>).out

RECURSIVE ChildrenOut(_)
ChildrenOut(kids) ==
    IF kids = <<>> THEN <<>>
    ELSE ChildOut(Head(kids)) \o ChildrenOut(Tail(kids))

\* the maximal runs of consecutive short commands, each as the Docs of its
\* commands; cur is the run being read
RECURSIVE ShortRuns(_, _)
ShortRuns(kids, cur) ==
    IF kids = <<>> THEN (IF cur = <<>> THEN <<>> ELSE <<cur>>)
    ELSE IF IsShortChild(Head(kids))
         THEN ShortRuns(Tail(kids), cur \o ChildOut(Head(kids)))
         ELSE (IF cur = <<>> THEN <<>> ELSE <<cur>>) \o ShortRuns(Tail(kids), <<>>)

\* the Docs yielded, every table replaced by the Docs it was made of
RECURSIVE Untabled(_)
Untabled(docs) ==
    IF docs = <<>> THEN <<>>
    ELSE (IF Head(docs).k = "tables" THEN Head(docs).docs ELSE <<Head(docs)>>)
            \o Untabled(Tail(docs))

TablesOf(docs) == SelectSeq(docs, LAMBDA d : d.k = "tables")

C13_RunsAreBatches ==
    (pc = "done" /\ IsTrue(self.align_short_commands)) =>
        /\ short_command_buffer = <<>>
        /\ [j \in DOMAIN TablesOf(out) |-> TablesOf(out)[j].docs]
              = ShortRuns(children, <<>>)
        /\ \A i \in DOMAIN out : ~IsShortRow(out[i])
        /\ SelectSeq(Untabled(out), LAMBDA d : d # Sep) = ChildrenOut(children)

C13_Witness ==
    /\ pc = "done"
    /\ IsTrue(self.align_short_commands)
    /\ Len(children) = 3
    /\ IsShortChild(children[1]) /\ IsShortChild(children[3])
    /\ children[1] # children[3]
    /\ children[2].type = "Command" /\ ~IsShortChild(children[2])
    /\ Len(TablesOf(out)) = 2
    /\ out[2].k = "tables" /\ out[Len(out)].k = "tables"

-----------------------------------------------------------------------------
(* C14: the top-level comments.  While in the header they are buffered in  *)
(* order; those before a Context come out directly above the context's     *)
(* lines, those after the last Context directly below the "-" separator,   *)
(* before the first body node's output or at the end of the file.  After   *)
(* the header a comment is not buffered: comment_buffer stays empty and    *)
(* the comment is yielded where it stands.  Each is yielded once.          *)

\* was the loop in header mode when it read child i?
HeaderAt(i) ==
    \A j \in 1..(i - 1) : children[j].type \notin {"IncludeTag", "Settings", "Command"}

HeaderCommentAt(i) == HeaderAt(i) /\ IsComment(children[i])

ContextsAfter(i) == {j \in (i + 1)..Len(children) : children[j].type = "Context"}
NextContext(i) == CHOOSE j \in ContextsAfter(i) : \A k \in ContextsAfter(i) : j <= k
LastContext ==
    IF ContextsAfter(0) = {} THEN 0
    ELSE CHOOSE j \in ContextsAfter(0) : \A k \in ContextsAfter(0) : k <= j

\* the places in `out` of the Doc of top-level comment i
PlacesOf(i) == {p \in DOMAIN out : out[p] = CommentDoc(children[i])}

\* the header comments read since the last Context, as Docs
Pending ==
    [m \in 1..(Len(children) - LastContext) |-> CommentDoc(children[LastContext + m])]

C14_HeaderComments ==
    /\ (pc = "loop" /\ in_header) => comment_buffer = Pending
    /\ (pc \in {"loop", "done"} /\ ~in_header) => comment_buffer = <<>>
    /\ pc = "done" =>
          /\ comment_buffer = <<>>
          /\ SelectSeq(Untabled(out), LAMBDA d : d # Sep) = ChildrenOut(children)
          /\ \A i \in DOMAIN children :
                IsComment(children[i]) => Cardinality(PlacesOf(i)) = 1
          /\ \A i \in DOMAIN children :
                (HeaderCommentAt(i) /\ ContextsAfter(i) # {}) =>
                    \A p \in PlacesOf(i) :
                        /\ \A m \in 1..(NextContext(i) - i - 1) :
                              out[p + m] = CommentDoc(children[i + m])
                        /\ out[p + NextContext(i) - i]
                              = ChildOut(children[NextContext(i)])[1]
          /\ \A i \in DOMAIN children :
                (HeaderCommentAt(i) /\ ContextsAfter(i) = {}) =>
                    \A p \in PlacesOf(i), s \in SepPlaces : p = s + (i - LastContext)

C14_Witness ==
    /\ pc = "done"
    /\ Len(children) = 3
    /\ IsComment(children[1])
    /\ children[2].type = "Context"
    /\ IsComment(children[3])
    /\ Len(out) >= 4
    /\ out[1] = CommentDoc(children[1])
    /\ out[Len(out) - 1] = Sep
    /\ out[Len(out)] = CommentDoc(children[3])

====
